---- MODULE Spec2Model ----
(***************************************************************************)
(* Model of src/search.mjs: the in-memory vector store MemoryVectorStore   *)
(* (addDocuments, addVectors, similaritySearchVectorWithScore, delete) and *)
(* the query function search.                                              *)
(*                                                                         *)
(* JavaScript runs the store on one thread.  An async method runs without  *)
(* interruption up to its first await; the only awaits are the calls to    *)
(* the embedding provider (embedDocuments, embedQuery).  A call suspended  *)
(* there is an element of inflight; any other call may run before the      *)
(* provider answers it.                                                    *)
(*                                                                         *)
(* Numbers.  Vector components are small integers.  A similarity score     *)
(* dot / (sqrt(a) * sqrt(b)) is kept as the pair (num, den2) = (dot, a*b)  *)
(* and two scores are compared exactly; NaN is a separate value.  On the   *)
(* vectors of the pools below (VecPool, SyncVecPool against QueryPool,     *)
(* SyncQueryPool) the IEEE-754 evaluation of the code yields the scores    *)
(* 0, 0.7071067811865475, 1 and NaN, ordered and tied the same way.        *)
(*                                                                         *)
(* Spec interleaves callers at the provider's suspension points.  SpecSync *)
(* is one caller using addVectors, similaritySearchVectorWithScore and     *)
(* delete directly, with the wider inputs the ranking needs.               *)
(***************************************************************************)
EXTENDS Integers, Sequences, FiniteSets

\* Bound of the model: documents the store may hold.
MaxStore == 2

VARIABLES documents, vectors, inflight, ret, issued, cleared, fe

vars == <<documents, vectors, inflight, ret, issued, cleared, fe>>

----------------------------------------------------------------------------
\* Values

\* A JavaScript value that may be undefined: an array read past its end.
Undefined == [undef |-> TRUE, val |-> <<>>]
Def(v) == [undef |-> FALSE, val |-> v]

\* Number.prototype.toString for a non-negative integer
Digit(d) ==
  CASE d = 0 -> "0" [] d = 1 -> "1" [] d = 2 -> "2" [] d = 3 -> "3" [] d = 4 -> "4"
    [] d = 5 -> "5" [] d = 6 -> "6" [] d = 7 -> "7" [] d = 8 -> "8" [] d = 9 -> "9"

RECURSIVE ToString(_)
ToString(n) == IF n < 10 THEN Digit(n) ELSE ToString(n \div 10) \o Digit(n % 10)

\* Catalog items of products.json.
Product1 == [id |-> "p1", name |-> "Watch", description |-> "Steel watch", price |-> 500]
Product2 == [id |-> "p2", name |-> "Ring", description |-> "Gold ring", price |-> 900]

\* Variants of the document createStore builds: without the price, and with
\* the name as source.
MakeDocNoPrice(product) ==
  [pageContent |-> product.name \o " - " \o product.description,
   metadata |-> [source |-> product.id]]

\* createStore: new Document({ pageContent: `${name} - ${description} - ${price}`,
\* metadata: { source: id } })
MakeDoc(product) ==
  [pageContent |-> product.name \o " - " \o product.description \o " - "
                     \o ToString(product.price),
   metadata |-> [source |-> product.id]]

\* Documents (pageContent, metadata.source) the callers pass in.
Doc1 == MakeDoc(Product1)
Doc2 == MakeDoc(Product2)

\* Asynchronous callers of the store; each awaits at most one call at a time.
Callers == { "a", "b" }

\* Inputs of the calls that suspend on the provider (Spec).
BatchPool == { <<Doc1>>, <<Doc2, Doc1>> }
VecPool == { <<1, 0>>, <<1>> }
QueryPool == { <<1, 0>> }
CountPool == { 3 }

\* Inputs of the direct calls (SpecSync): every batch of up to two documents,
\* vectors with equal, different and undefined (NaN) scores, every kind of k.
SyncBatchPool == { <<>>, <<Doc1>>, <<Doc2>>, <<Doc1, Doc2>>, <<Doc2, Doc1>>, <<Doc1, Doc1>> }
SyncVecPool == { <<1, 0>>, <<0, 1>>, <<0, 0>>, <<1>> }
SyncQueryPool == { <<1, 0>>, <<1, 1>>, <<0, 0>> }
KPool == { -1, 0, 1, 2, 3 }

\* delete's params: absent, {}, and an object with one key.
NoParams == [given |-> FALSE, obj |-> <<>>]
ParamsPool == { NoParams,
                [given |-> TRUE, obj |-> <<>>],
                [given |-> TRUE, obj |-> [anything |-> "x"]] }

SeqsUpTo(S, n) == UNION { [1..m -> S] : m \in 0..n }

\* What a provider may answer to n texts: one vector too few, n vectors, or one
\* too many.
Responses(V, n) == { vs \in SeqsUpTo(V, n + 1) : Len(vs) >= n - 1 }

\* What the last settled call delivered to its caller (nothing yet).
\* order and moved are not part of the value: order lists, for a search, the
\* store index of each returned entry; moved tells, for a search, that the
\* store size changed between the call and the scan.
Settled(op, status, value, error, k, order, moved) ==
  [op |-> op, status |-> status, value |-> value, error |-> error, k |-> k, order |-> order,
   moved |-> moved]

None == Settled("none", "none", <<>>, "none", 0, <<>>, FALSE)

----------------------------------------------------------------------------
\* MemoryVectorStore.addVectors: the for loop, run from index i (0-based) on.
\* vs[i] read past the end of vs is undefined.
RECURSIVE AddVectorsFrom(_, _, _, _, _, _)
AddVectorsFrom(i, docs, vecs, ids, vs, ds) ==
  IF i < Len(ds)
    THEN LET docs2 == Append(docs, ds[i + 1])
             vecs2 == Append(vecs, IF i + 1 \in 1..Len(vs) THEN Def(vs[i + 1]) ELSE Undefined)
             ids2 == Append(ids, ToString(Len(docs2) - 1))
         IN  AddVectorsFrom(i + 1, docs2, vecs2, ids2, vs, ds)
    ELSE [documents |-> docs, vectors |-> vecs, ids |-> ids]

Min(a, b) == IF a < b THEN a ELSE b

\* Variants of addVectors with a slip in the loop.
\*   the vector is pushed only when the provider supplied one
AddVectorsSkipMissing(docs, vecs, vs, ds) ==
  [documents |-> docs \o ds,
   vectors |-> vecs \o [j \in 1..Min(Len(vs), Len(ds)) |-> Def(vs[j])],
   ids |-> [j \in 1..Len(ds) |-> ToString(Len(docs) + j - 1)]]

\*   the loop runs over vectors.length and stops at the shorter input
AddVectorsOverVectors(docs, vecs, vs, ds) ==
  LET m == Min(Len(vs), Len(ds))
  IN  [documents |-> docs \o SubSeq(ds, 1, m),
       vectors |-> vecs \o [j \in 1..m |-> Def(vs[j])],
       ids |-> [j \in 1..m |-> ToString(Len(docs) + j - 1)]]

\*   ids.push(this.documents.length.toString()), without the - 1
AddVectorsOffByOne(docs, vecs, vs, ds) ==
  [documents |-> docs \o ds,
   vectors |-> vecs \o [j \in 1..Len(ds) |-> IF j <= Len(vs) THEN Def(vs[j]) ELSE Undefined],
   ids |-> [j \in 1..Len(ds) |-> ToString(Len(docs) + j)]]

\*   this.vectors.push(vectors[documents.length - 1 - i])
AddVectorsReversed(docs, vecs, vs, ds) ==
  [documents |-> docs \o ds,
   vectors |-> vecs \o [j \in 1..Len(ds) |->
                          IF Len(ds) + 1 - j <= Len(vs) THEN Def(vs[Len(ds) + 1 - j]) ELSE Undefined],
   ids |-> [j \in 1..Len(ds) |-> ToString(Len(docs) + j - 1)]]

\*   the loop gives way to other operations after its first item
AddVectorsYieldsAfterFirst(docs, vecs, vs, ds) ==
  AddVectorsFrom(0, docs, vecs, <<>>, vs, SubSeq(ds, 1, Min(1, Len(ds))))

AddVectors(docs, vecs, vs, ds) == AddVectorsFrom(0, docs, vecs, <<>>, vs, ds)

----------------------------------------------------------------------------
\* Cosine similarity as similaritySearchVectorWithScore computes it.

NaN == [nan |-> TRUE, num |-> 0, den2 |-> 1]

\* vector.reduce((sum, val, i) => sum + val * query[i], 0); query[i] past the
\* end of query is undefined and val * undefined is NaN.
DotProduct(vector, query) ==
  LET f[i \in 0..Len(vector)] ==
        IF i = 0 THEN [nan |-> FALSE, n |-> 0]
        ELSE IF f[i - 1].nan \/ i > Len(query) THEN [nan |-> TRUE, n |-> 0]
        ELSE [nan |-> FALSE, n |-> f[i - 1].n + vector[i] * query[i]]
  IN  f[Len(vector)]

\* v.reduce((sum, val) => sum + val * val, 0): the square of the magnitude.
SumSquares(v) ==
  LET f[i \in 0..Len(v)] == IF i = 0 THEN 0 ELSE f[i - 1] + v[i] * v[i]
  IN  f[Len(v)]

\* dotProduct / (magnitudeA * magnitudeB).  A zero magnitude makes every term
\* of the dot product 0 (or NaN), so the quotient is 0/0 = NaN, never Infinity.
Similarity(vector, query) ==
  LET dot == DotProduct(vector, query)
      den2 == SumSquares(vector) * SumSquares(query)
  IN  IF dot.nan \/ den2 = 0 THEN NaN
      ELSE [nan |-> FALSE, num |-> dot.n, den2 |-> den2]

Sgn(n) == IF n > 0 THEN 1 ELSE IF n < 0 THEN -1 ELSE 0

\* x < y for two scores that are numbers: num/sqrt(den2) compared exactly.
ScoreLess(x, y) ==
  Sgn(x.num) * x.num * x.num * y.den2 < Sgn(y.num) * y.num * y.num * x.den2

\* The comparator (a, b) => b.score - a.score as sort reads it: its sign, and
\* 0 when the difference is NaN.
Comparator(a, b) ==
  IF a.score.nan \/ b.score.nan THEN 0
  ELSE IF ScoreLess(a.score, b.score) THEN 1
  ELSE IF ScoreLess(b.score, a.score) THEN -1
  ELSE 0

\* this.vectors.map((vector, idx) => ({ idx, score })), idx counted from 0.
ScoreAll(vecs, query) ==
  [j \in 1..Len(vecs) |-> [idx |-> j - 1, score |-> Similarity(vecs[j].val, query)]]

\* Array.prototype.sort is stable when the comparator is consistent: insert x
\* after the last element that does not have to follow it.
RECURSIVE InsertSorted(_, _)
InsertSorted(sorted, x) ==
  IF sorted = <<>> THEN <<x>>
  ELSE LET last == sorted[Len(sorted)]
       IN  IF Comparator(last, x) > 0
             THEN Append(InsertSorted(SubSeq(sorted, 1, Len(sorted) - 1), x), last)
             ELSE Append(sorted, x)

RECURSIVE StableSort(_)
StableSort(s) ==
  IF s = <<>> THEN <<>>
  ELSE InsertSorted(StableSort(SubSeq(s, 1, Len(s) - 1)), s[Len(s)])

\* A consistent comparator (ECMAScript 23.1.3.30.2): comparing equal is
\* transitive.  A NaN score among two different numbers breaks it.
ConsistentComparator(s) ==
  \A i, j, l \in 1..Len(s) :
    (Comparator(s[i], s[j]) = 0 /\ Comparator(s[j], s[l]) = 0)
      => Comparator(s[i], s[l]) = 0

PermutationsOf(s) ==
  { [j \in 1..Len(s) |-> s[p[j]]] :
      p \in { f \in [1..Len(s) -> 1..Len(s)] : \A a, b \in 1..Len(s) : f[a] = f[b] => a = b } }

\* scores.sort(...): the stable order, or, with an inconsistent comparator, an
\* implementation-defined order.
SortOutcomes(s) ==
  IF ConsistentComparator(s) THEN { StableSort(s) } ELSE PermutationsOf(s)

\* Array.prototype.slice(0, k) for an integer k.
Slice0(s, k) ==
  LET final == IF k < 0 THEN (IF Len(s) + k > 0 THEN Len(s) + k ELSE 0)
               ELSE (IF k < Len(s) THEN k ELSE Len(s))
  IN  SubSeq(s, 1, final)

\* vector.reduce on an undefined vector throws a TypeError.
ScanThrows(vecs) == \E j \in 1..Len(vecs) : vecs[j].undef

\* scores.sort(...).slice(0, k): the possible selections, each a sequence of
\* { idx, score }.
TopKOutcomes(vecs, query, k) ==
  { Slice0(sorted, k) : sorted \in SortOutcomes(ScoreAll(vecs, query)) }

\* .map(({ idx, score }) => [this.documents[idx], score])
Results(docs, top) ==
  [j \in 1..Len(top) |-> <<docs[top[j].idx + 1], top[j].score>>]

\* search: results.map(([doc, score]) => ({...doc.metadata, content, score}))
Flatten(results) ==
  [j \in 1..Len(results) |->
     [source |-> results[j][1].metadata.source,
      content |-> results[j][1].pageContent,
      score |-> results[j][2]]]

\* Variants of delete's condition: the comment's "we'll just clear all", and a
\* test that forgets !params.
ClearsAlways(params) == TRUE

ClearsGivenEmpty(params) == params.given /\ Cardinality(DOMAIN params.obj) = 0

\* delete: !params || Object.keys(params).length === 0
ClearsAll(params) == ~params.given \/ Cardinality(DOMAIN params.obj) = 0

----------------------------------------------------------------------------
\* State

Range(s) == { s[j] : j \in 1..Len(s) }

\* addDocuments: documents.map((doc) => doc.pageContent)
Texts(ds) == [j \in 1..Len(ds) |-> ds[j].pageContent]

\* A variant that embeds the texts one call per document.
EmbedPerItem(ds) == [j \in 1..Len(ds) |-> <<ds[j].pageContent>>]

\* addDocuments: the calls of embedDocuments it makes, each with its argument.
EmbedDocumentsCalls(ds) == <<Texts(ds)>>

\* A call suspended on the provider.  startSize (the store size when the call
\* was issued) and afterClear (the call was issued after an unfiltered delete,
\* with no append since and no addDocuments in flight) are not program state.
\* embedCalls lists the arguments of the embedDocuments calls the call has made.
Suspended(op, ds, k, afterClear) ==
  [op |-> op, documents |-> ds, count |-> k, startSize |-> Len(documents),
   afterClear |-> afterClear,
   embedCalls |-> IF op = "addDocuments" THEN EmbedDocumentsCalls(ds) ELSE <<>>]

Idle ==
  [op |-> "idle", documents |-> <<>>, count |-> 0, startSize |-> 0, afterClear |-> FALSE,
   embedCalls |-> <<>>]

\* The front-end before the script has started.  query is askQuery's local
\* constant, the last line read after trimming.
NotStarted == [pc |-> "init", prompted |-> FALSE, query |-> <<>>]

IngestInflight == \E c \in Callers : inflight[c].op = "addDocuments"

\* constructor: this.documents = []; this.vectors = []
Init ==
  /\ documents = <<>>
  /\ vectors = <<>>
  /\ inflight = [c \in Callers |-> Idle]
  /\ ret = None
  /\ issued = {}
  /\ cleared = FALSE
  /\ fe = NotStarted

\* The append of addVectors(vs, ds) on the current store, settled as `op`.
AppendStep(op, vs, ds) ==
  LET r == AddVectors(documents, vectors, vs, ds)
  IN  /\ Len(documents) + Len(ds) <= MaxStore
      /\ documents' = r.documents
      /\ vectors' = r.vectors
      /\ ret' = Settled(op, "ok", r.ids, "none", 0, <<>>, FALSE)
      /\ issued' = issued \cup Range(r.ids)
      /\ cleared' = (cleared /\ Len(ds) = 0)

\* addDocuments(ds) up to its await: texts are mapped and embedDocuments(texts)
\* is called once; the call suspends.
CallAddDocuments(c, ds) ==
  /\ inflight[c].op = "idle"
  /\ inflight' = [inflight EXCEPT ![c] = Suspended("addDocuments", ds, 0, FALSE)]
  /\ UNCHANGED <<documents, vectors, ret, issued, cleared>>

\* A variant that numbers the items from the store size at the time of the
\* call.
ResolveAddDocumentsIdsFromIssue(c, vs) ==
  LET ds == inflight[c].documents
      r == AddVectors(documents, vectors, vs, ds)
  IN  /\ inflight[c].op = "addDocuments"
      /\ Len(documents) + Len(ds) <= MaxStore
      /\ documents' = r.documents
      /\ vectors' = r.vectors
      /\ ret' = Settled("addDocuments", "ok",
                        [j \in 1..Len(ds) |-> ToString(inflight[c].startSize + j - 1)],
                        "none", 0, <<>>, FALSE)
      /\ issued' = issued \cup Range(ret'.value)
      /\ cleared' = (cleared /\ Len(ds) = 0)
      /\ inflight' = [inflight EXCEPT ![c] = Idle]

\* embedDocuments resolved with vs: return this.addVectors(vectors, documents).
ResolveAddDocuments(c, vs) ==
  /\ inflight[c].op = "addDocuments"
  /\ AppendStep("addDocuments", vs, inflight[c].documents)
  /\ inflight' = [inflight EXCEPT ![c] = Idle]

\* A variant that pushes the documents before it awaits the provider.
RejectAddDocumentsPartial(c) ==
  /\ inflight[c].op = "addDocuments"
  /\ Len(documents) + Len(inflight[c].documents) <= MaxStore
  /\ documents' = documents \o inflight[c].documents
  /\ ret' = Settled("addDocuments", "error", <<>>, "ProviderFailure", 0, <<>>, FALSE)
  /\ inflight' = [inflight EXCEPT ![c] = Idle]
  /\ UNCHANGED <<vectors, issued, cleared>>

\* embedDocuments rejected: the await throws and addDocuments rejects.
RejectAddDocuments(c) ==
  /\ inflight[c].op = "addDocuments"
  /\ ret' = Settled("addDocuments", "error", <<>>, "ProviderFailure", 0, <<>>, FALSE)
  /\ inflight' = [inflight EXCEPT ![c] = Idle]
  /\ UNCHANGED <<documents, vectors, issued, cleared>>

\* addVectors(vs, ds) called directly: it has no await.
CallAddVectors(vs, ds) ==
  /\ AppendStep("addVectors", vs, ds)
  /\ UNCHANGED inflight

\* similaritySearchVectorWithScore(query, k) on the current store: it throws,
\* or returns one of the possible results.
ScanOutcomes(query, k) ==
  IF ScanThrows(vectors)
    THEN { [status |-> "error", error |-> "TypeError", value |-> <<>>, order |-> <<>>] }
    ELSE { [status |-> "ok", error |-> "none", value |-> Results(documents, top),
            order |-> [j \in 1..Len(top) |-> top[j].idx]] :
           top \in TopKOutcomes(vectors, query, k) }

\* similaritySearchVectorWithScore(query, k) called directly: it has no await.
CallSimilaritySearch(query, k) ==
  /\ \E o \in ScanOutcomes(query, k) :
       ret' = Settled("similaritySearchVectorWithScore", o.status, o.value, o.error, k, o.order, FALSE)
  /\ UNCHANGED <<documents, vectors, inflight, issued, cleared>>

\* search(query, count) up to its await on embedQuery.
CallSearch(c, k) ==
  /\ inflight[c].op = "idle"
  /\ inflight' = [inflight EXCEPT ![c] = Suspended("search", <<>>, k, cleared /\ ~IngestInflight)]
  /\ UNCHANGED <<documents, vectors, ret, issued, cleared>>

\* A variant that scans the part of the store that existed when search was
\* called.
ResolveSearchAtIssueSize(c, queryEmbedding) ==
  /\ inflight[c].op = "search"
  /\ \E top \in TopKOutcomes(SubSeq(vectors, 1, Min(inflight[c].startSize, Len(vectors))),
                              queryEmbedding, inflight[c].count) :
       ret' = Settled("search", "ok", Flatten(Results(documents, top)), "none",
                      inflight[c].count, [j \in 1..Len(top) |-> top[j].idx],
                      inflight[c].startSize # Len(documents))
  /\ inflight' = [inflight EXCEPT ![c] = Idle]
  /\ UNCHANGED <<documents, vectors, issued, cleared>>

\* A variant whose scan takes the entries it selects out of the store (splice
\* for slice, on the store's arrays).
ResolveSearchSplicesStore(c, queryEmbedding) ==
  /\ inflight[c].op = "search"
  /\ \E o \in ScanOutcomes(queryEmbedding, inflight[c].count) :
       /\ ret' = Settled("search", o.status, Flatten(o.value), o.error, inflight[c].count, o.order,
                         inflight[c].startSize # Len(documents))
       /\ IF o.status = "ok"
            THEN /\ documents' = SubSeq(documents, Len(o.order) + 1, Len(documents))
                 /\ vectors' = SubSeq(vectors, Len(o.order) + 1, Len(vectors))
            ELSE UNCHANGED <<documents, vectors>>
  /\ inflight' = [inflight EXCEPT ![c] = Idle]
  /\ UNCHANGED <<issued, cleared>>

\* embedQuery resolved with queryEmbedding: the scan and the mapping.
ResolveSearch(c, queryEmbedding) ==
  /\ inflight[c].op = "search"
  /\ \E o \in ScanOutcomes(queryEmbedding, inflight[c].count) :
       ret' = Settled("search", o.status, Flatten(o.value), o.error, inflight[c].count, o.order,
                      inflight[c].startSize # Len(documents))
  /\ inflight' = [inflight EXCEPT ![c] = Idle]
  /\ UNCHANGED <<documents, vectors, issued, cleared>>

\* embedQuery rejected: search rejects.
RejectSearch(c) ==
  /\ inflight[c].op = "search"
  /\ ret' = Settled("search", "error", <<>>, "ProviderFailure", inflight[c].count, <<>>, FALSE)
  /\ inflight' = [inflight EXCEPT ![c] = Idle]
  /\ UNCHANGED <<documents, vectors, issued, cleared>>

\* delete(params)
Delete(params) ==
  /\ IF ClearsAll(params)
       THEN /\ documents' = <<>>
            /\ vectors' = <<>>
            /\ issued' = {}
            /\ cleared' = TRUE
       ELSE UNCHANGED <<documents, vectors, issued, cleared>>
  /\ ret' = Settled("delete", "ok", <<>>, "none", 0, <<>>, FALSE)
  /\ UNCHANGED inflight

\* Callers that interleave at the provider's suspension points.
Next ==
  \/ \E c \in Callers, ds \in BatchPool : CallAddDocuments(c, ds) /\ UNCHANGED fe
  \/ \E c \in Callers : \E vs \in Responses(VecPool, Len(inflight[c].documents)) :
       ResolveAddDocuments(c, vs) /\ UNCHANGED fe
  \/ \E c \in Callers : RejectAddDocuments(c) /\ UNCHANGED fe
  \/ \E ds \in BatchPool : \E vs \in Responses(VecPool, Len(ds)) :
       CallAddVectors(vs, ds) /\ UNCHANGED fe
  \/ \E q \in QueryPool, k \in CountPool : CallSimilaritySearch(q, k) /\ UNCHANGED fe
  \/ \E c \in Callers, k \in CountPool : CallSearch(c, k) /\ UNCHANGED fe
  \/ \E c \in Callers, q \in QueryPool : ResolveSearch(c, q) /\ UNCHANGED fe
  \/ \E c \in Callers : RejectSearch(c) /\ UNCHANGED fe
  \/ \E params \in ParamsPool : Delete(params) /\ UNCHANGED fe

Spec == Init /\ [][Next]_vars

\* One caller that uses the store's methods directly, one call after another.
NextSync ==
  \/ \E ds \in SyncBatchPool : \E vs \in Responses(SyncVecPool, Len(ds)) :
       CallAddVectors(vs, ds) /\ UNCHANGED fe
  \/ \E q \in SyncQueryPool, k \in KPool : CallSimilaritySearch(q, k) /\ UNCHANGED fe
  \/ \E params \in ParamsPool : Delete(params) /\ UNCHANGED fe

SpecSync == Init /\ [][NextSync]_vars

----------------------------------------------------------------------------
\* The script: createStore at startup, then the readline loop askQuery.

\* search(query, count = 3)
DefaultCount == 3

\* Lines the user types, as sequences of characters.
InputPool ==
  { <<>>,
    <<" ", " ">>,
    <<"e", "x", "i", "t">>,
    <<"E", "X", "I", "T">>,
    <<" ", "Q", "u", "i", "t", " ">>,
    <<"e", "x", "i", "t", "s">>,
    <<"w", "a", "t", "c", "h">> }

\* Catalogs products.json may hold.
CatalogPool == { <<>>, <<Product1>>, <<Product1, Product2>> }

IsSpace(ch) == ch \in { " ", "\t" }

\* String.prototype.trim
RECURSIVE TrimStart(_)
TrimStart(line) ==
  IF line # <<>> /\ IsSpace(line[1]) THEN TrimStart(Tail(line)) ELSE line

RECURSIVE TrimEnd(_)
TrimEnd(line) ==
  IF line # <<>> /\ IsSpace(line[Len(line)])
    THEN TrimEnd(SubSeq(line, 1, Len(line) - 1))
    ELSE line

Trim(line) == TrimEnd(TrimStart(line))

\* String.prototype.toLowerCase on ASCII letters
UpperCase ==
  <<"A", "B", "C", "D", "E", "F", "G", "H", "I", "J", "K", "L", "M",
    "N", "O", "P", "Q", "R", "S", "T", "U", "V", "W", "X", "Y", "Z">>

LowerCase ==
  <<"a", "b", "c", "d", "e", "f", "g", "h", "i", "j", "k", "l", "m",
    "n", "o", "p", "q", "r", "s", "t", "u", "v", "w", "x", "y", "z">>

ToLowerCase(line) ==
  [j \in 1..Len(line) |->
     IF \E i \in 1..Len(UpperCase) : UpperCase[i] = line[j]
       THEN LowerCase[CHOOSE i \in 1..Len(UpperCase) : UpperCase[i] = line[j]]
       ELSE line[j]]

\* Variants of the exit test: without toLowerCase, and without trim.
IsExitCommandCaseSensitive(input) ==
  LET query == Trim(input)
  IN  query = <<>> \/ query = <<"e", "x", "i", "t">> \/ query = <<"q", "u", "i", "t">>

IsExitCommandUntrimmed(input) ==
  \/ input = <<>>
  \/ ToLowerCase(input) = <<"e", "x", "i", "t">>
  \/ ToLowerCase(input) = <<"q", "u", "i", "t">>

\* askQuery: const query = input.trim();
\* !query || query.toLowerCase() === "exit" || query.toLowerCase() === "quit"
IsExitCommand(input) ==
  LET query == Trim(input)
  IN  \/ query = <<>>
      \/ ToLowerCase(query) = <<"e", "x", "i", "t">>
      \/ ToLowerCase(query) = <<"q", "u", "i", "t">>

\* Variants of the loop: the next prompt is issued without awaiting the search;
\* a failed query ends the loop.
PromptWithoutAwait == "prompt"

StopOnFailure == "exited"

\* askQuery after a query was submitted: it awaits search(query).
AfterSubmit == "searching"

\* askQuery after search(query) threw: the catch block, then askQuery().
AfterQueryFailure == "prompt"

\* readFile or JSON.parse throws at the top level: the script ends.
LoadFails ==
  /\ fe.pc = "init"
  /\ fe' = [fe EXCEPT !.pc = "aborted"]
  /\ UNCHANGED <<documents, vectors, inflight, ret, issued, cleared>>

\* createStore(products): the documents are built and addDocuments is awaited.
StartCreateStore(c, products) ==
  /\ fe.pc = "init"
  /\ CallAddDocuments(c, [j \in 1..Len(products) |-> MakeDoc(products[j])])
  /\ fe' = [fe EXCEPT !.pc = "ingesting"]

\* createStore resolved: the store is announced and askQuery() issues the
\* first prompt.
CreateStoreResolves(c, vs) ==
  /\ fe.pc = "ingesting"
  /\ ResolveAddDocuments(c, vs)
  /\ fe' = [fe EXCEPT !.pc = "prompt", !.prompted = TRUE]

\* createStore rejected: the top-level await throws and the script ends.
CreateStoreRejects(c) ==
  /\ fe.pc = "ingesting"
  /\ RejectAddDocuments(c)
  /\ fe' = [fe EXCEPT !.pc = "aborted"]

\* The rl.question callback on a line of input.
ReadLine(input) ==
  /\ fe.pc = "prompt"
  /\ IF IsExitCommand(input)
       THEN /\ fe' = [fe EXCEPT !.pc = "exited", !.query = Trim(input)]
            /\ UNCHANGED <<documents, vectors, inflight, ret, issued, cleared>>
       ELSE /\ \E c \in Callers : CallSearch(c, DefaultCount)
            /\ fe' = [fe EXCEPT !.pc = AfterSubmit, !.query = Trim(input)]

\* search resolved, or threw in the scan: the results or the error are
\* printed and askQuery() issues the next prompt.
QuerySettles(c, queryEmbedding) ==
  /\ fe.pc = "searching"
  /\ ResolveSearch(c, queryEmbedding)
  /\ fe' = [fe EXCEPT !.pc = IF ret'.status = "error" THEN AfterQueryFailure ELSE "prompt"]

\* search rejected by the provider: the error is printed, then askQuery().
QueryFails(c) ==
  /\ fe.pc = "searching"
  /\ RejectSearch(c)
  /\ fe' = [fe EXCEPT !.pc = AfterQueryFailure]

\* rl.on("SIGINT"): rl.close(); process.exit(0)
Sigint ==
  /\ fe.pc \in { "prompt", "searching" }
  /\ fe' = [fe EXCEPT !.pc = "exited"]
  /\ UNCHANGED <<documents, vectors, inflight, ret, issued, cleared>>

NextMain ==
  \/ LoadFails
  \/ \E c \in Callers, products \in CatalogPool : StartCreateStore(c, products)
  \/ \E c \in Callers : \E vs \in Responses(SyncVecPool, Len(inflight[c].documents)) :
       CreateStoreResolves(c, vs)
  \/ \E c \in Callers : CreateStoreRejects(c)
  \/ \E input \in InputPool : ReadLine(input)
  \/ \E c \in Callers, q \in SyncQueryPool : QuerySettles(c, q)
  \/ \E c \in Callers : QueryFails(c)
  \/ Sigint

\* The script as it runs: one store, filled once, then queried in a loop.
SpecMain == Init /\ [][NextMain]_vars

----------------------------------------------------------------------------
\* Claims

IsNumber(score) == ~score.nan

\* C1: similaritySearchVectorWithScore returns min(k, n) entries (none for
\* k <= 0), in non-increasing score order, equal scores by ascending index.
C1_TopKContract ==
  (ret.op = "similaritySearchVectorWithScore" /\ ret.status = "ok") =>
    /\ Len(ret.value) = IF ret.k <= 0 THEN 0 ELSE Min(ret.k, Len(documents))
    /\ \A j \in 1..(Len(ret.value) - 1) :
         LET a == ret.value[j][2]
             b == ret.value[j + 1][2]
         IN  /\ IsNumber(a) /\ IsNumber(b)
             /\ ~ScoreLess(a, b)
             /\ ~ScoreLess(b, a) => ret.order[j] < ret.order[j + 1]

\* C2: similaritySearchVectorWithScore returns the empty sequence when the
\* store is empty and when k <= 0.
C2_EmptyResult ==
  (/\ ret.op = "similaritySearchVectorWithScore"
   /\ ret.status = "ok"
   /\ (Len(documents) = 0 \/ ret.k <= 0))
    => ret.value = <<>>

\* C3: documents and vectors have the same length in every state between
\* operations.
C3_ParallelArrays == Len(documents) = Len(vectors)

C3_Witness ==
  /\ ret.op = "addDocuments"
  /\ ret.status = "ok"
  /\ Len(documents) = 2
  /\ Len(vectors) = 2
  /\ vectors[2].undef

\* C4: an append of m records on a store of size s returns the identifiers
\* s, ..., s+m-1; none of them was handed out since the last full clear; the
\* first append after a full clear starts at 0.
C4_Post(ds) ==
  /\ ret'.value = [j \in 1..Len(ds) |-> ToString(Len(documents) + j - 1)]
  /\ Range(ret'.value) \cap issued = {}
  /\ (cleared /\ Len(ds) > 0) => ret'.value[1] = "0"

C4_Identifiers ==
  [][/\ \A ds \in BatchPool :
          (ret'.op = "addVectors" /\ \E vs \in SeqsUpTo(VecPool, Len(ds) + 1) : CallAddVectors(vs, ds))
            => C4_Post(ds)
     /\ \A c \in Callers :
          (/\ inflight[c].op = "addDocuments"
           /\ \E vs \in SeqsUpTo(VecPool, Len(inflight[c].documents) + 1) : ResolveAddDocuments(c, vs))
            => C4_Post(inflight[c].documents)]_vars

C4_Witness ==
  /\ ret.op = "addDocuments"
  /\ ret.status = "ok"
  /\ ret.value = <<"1">>
  /\ issued = {"0", "1"}

\* C5 as stated: when addDocuments completes, the store size is the size at the
\* moment the call was issued plus the number of items.
C5_SizeFromStart ==
  [][\A c \in Callers :
       (/\ inflight[c].op = "addDocuments"
        /\ \E vs \in SeqsUpTo(VecPool, Len(inflight[c].documents) + 1) : ResolveAddDocuments(c, vs))
         => Len(documents') = inflight[c].startSize + Len(inflight[c].documents)]_vars

\* C5 amended: when addDocuments completes, the store size is the size just
\* before its append step plus the number of items, and so is the number of
\* vectors.
C5_SizeFromAppend ==
  [][\A c \in Callers :
       (/\ inflight[c].op = "addDocuments"
        /\ \E vs \in SeqsUpTo(VecPool, Len(inflight[c].documents) + 1) : ResolveAddDocuments(c, vs))
         => /\ Len(documents') = Len(documents) + Len(inflight[c].documents)
            /\ Len(vectors') = Len(vectors) + Len(inflight[c].documents)]_vars

C5_Witness ==
  /\ ret.op = "addDocuments"
  /\ ret.status = "ok"
  /\ Len(ret.value) = 1
  /\ Len(documents) = 2

\* C6: one call appends records and vectors in lock-step in input order: input
\* item j and provider vector j sit at store index s+j-1, after the s entries
\* already there, and the j-th returned identifier names that index.
C6_Post(ds, vs) ==
  LET s == Len(documents)
  IN  /\ SubSeq(documents', 1, s) = documents
      /\ SubSeq(vectors', 1, s) = vectors
      /\ \A j \in 1..Len(ds) :
           /\ documents'[s + j] = ds[j]
           /\ j <= Len(vs) => vectors'[s + j] = Def(vs[j])
           /\ ret'.value[j] = ToString(s + j - 1)

C6_LockStep ==
  [][/\ \A ds \in BatchPool : \A vs \in SeqsUpTo(VecPool, Len(ds) + 1) :
          (ret'.op = "addVectors" /\ CallAddVectors(vs, ds)) => C6_Post(ds, vs)
     /\ \A c \in Callers :
          inflight[c].op = "addDocuments" =>
            \A vs \in SeqsUpTo(VecPool, Len(inflight[c].documents) + 1) :
              ResolveAddDocuments(c, vs) => C6_Post(inflight[c].documents, vs)]_vars

C6_Witness ==
  /\ ret.op = "addDocuments"
  /\ ret.status = "ok"
  /\ ret.value = <<"0", "1">>
  /\ documents = <<Doc2, Doc1>>
  /\ vectors = <<Def(<<1, 0>>), Def(<<1>>)>>

NonEmptyFilter(params) == params.given /\ DOMAIN params.obj # {}

\* A step in which a search scans the store: the continuation of search, or a
\* direct call of similaritySearchVectorWithScore.
ScanRuns ==
  \/ \E c \in Callers, q \in QueryPool : ResolveSearch(c, q)
  \/ \E q \in QueryPool, k \in CountPool : CallSimilaritySearch(q, k)

\* C7 as stated: a search issued after an unfiltered delete and before the next
\* ingest returns the empty sequence.
C7_EmptyFromIssue ==
  [][\A c \in Callers :
       (inflight[c].afterClear /\ \E q \in QueryPool : ResolveSearch(c, q))
         => (ret'.status = "ok" /\ ret'.value = <<>>)]_vars

\* C7 amended: an unfiltered delete leaves both sequences empty, and a search
\* whose scan runs after it and before the next append returns the empty
\* sequence, not an error.
C7_EmptyFromScan ==
  [][/\ \A params \in ParamsPool :
          (~NonEmptyFilter(params) /\ Delete(params))
            => (Len(documents') = 0 /\ Len(vectors') = 0)
     /\ (cleared /\ ScanRuns) => (ret'.status = "ok" /\ ret'.value = <<>>)]_vars

C7_Witness ==
  /\ cleared
  /\ ret.op = "search"
  /\ ret.status = "ok"
  /\ ret.value = <<>>
  /\ issued = {}
  /\ \E c \in Callers : inflight[c].op = "addDocuments" /\ inflight[c].startSize > 0

C9_ContractViolation ==
  [][\A c \in Callers : \A vs \in SeqsUpTo(VecPool, Len(inflight[c].documents) + 1) :
       (Len(vs) # Len(inflight[c].documents) /\ ResolveAddDocuments(c, vs))
         => /\ ret'.status = "error"
            /\ ret'.error = "ProviderContractViolation"
            /\ documents' = documents
            /\ vectors' = vectors]_vars

\* C10: every vector held in the store has the same length (an append of a
\* vector of another length fails with DimensionMismatch).
C10_SameDimension ==
  \A i, j \in 1..Len(vectors) :
    (~vectors[i].undef /\ ~vectors[j].undef) => Len(vectors[i].val) = Len(vectors[j].val)

StoreUnchanged == documents' = documents /\ vectors' = vectors

C12_ScanTimeContents ==
  [][\A c \in Callers :
       inflight[c].op = "search" =>
         \A q \in QueryPool :
           (ResolveSearch(c, q) /\ ret'.status = "ok")
             => /\ Len(ret'.value) = Min(inflight[c].count, Len(documents))
                /\ Len(ret'.order) = Len(ret'.value)
                /\ \A i, j \in 1..Len(ret'.order) : ret'.order[i] = ret'.order[j] => i = j
                /\ \A j \in 1..Len(ret'.value) :
                     /\ ret'.order[j] \in 0..(Len(documents) - 1)
                     /\ ret'.value[j].content = documents[ret'.order[j] + 1].pageContent
                     /\ ret'.value[j].source = documents[ret'.order[j] + 1].metadata.source]_vars

C12_Witness ==
  /\ ret.op = "search"
  /\ ret.status = "ok"
  /\ ret.moved
  /\ Len(ret.value) = 2
  /\ Len(documents) = 2

\* C13: addDocuments calls embedDocuments exactly once, with the texts of all
\* its documents in input order.
C13_OneBatchCall ==
  \A c \in Callers :
    inflight[c].op = "addDocuments" =>
      /\ Len(inflight[c].embedCalls) = 1
      /\ Len(inflight[c].embedCalls[1]) = Len(inflight[c].documents)
      /\ \A j \in 1..Len(inflight[c].documents) :
           inflight[c].embedCalls[1][j] = inflight[c].documents[j].pageContent

C13_Witness ==
  \E c \in Callers :
    /\ inflight[c].op = "addDocuments"
    /\ inflight[c].embedCalls = << <<"Ring - Gold ring - 900", "Watch - Steel watch - 500">> >>

\* A step in which the query in flight fails: the provider rejects embedQuery,
\* or the scan throws.
QueryFailureStep ==
  \E c \in Callers :
    \/ QueryFails(c)
    \/ ret'.status = "error" /\ \E q \in SyncQueryPool : QuerySettles(c, q)

\* C14: a query that fails is caught and the loop issues the next prompt; a
\* failure of the initial ingestion ends the script before any prompt is issued,
\* and nothing follows it.
C14_FailureHandling ==
  [][/\ (fe.pc = "searching" /\ QueryFailureStep)
          => /\ fe'.pc = "prompt"
             /\ ret'.op = "search"
             /\ ret'.status = "error"
     /\ (fe.pc = "ingesting" /\ \E c \in Callers : CreateStoreRejects(c))
          => /\ fe'.pc = "aborted"
             /\ ~fe'.prompted
     /\ fe.pc = "aborted" => (fe'.pc = "aborted" /\ ~fe'.prompted)]_vars

C14_Witness ==
  /\ fe.pc = "prompt"
  /\ fe.prompted
  /\ ret.op = "search"
  /\ ret.status = "error"
  /\ ret.error = "ProviderFailure"

\* C15: no score that takes part in a ranking is NaN: every score that
\* similaritySearchVectorWithScore returns is a number.
C15_NoNaNInRanking ==
  (ret.op = "similaritySearchVectorWithScore" /\ ret.status = "ok") =>
    \A j \in 1..Len(ret.value) : IsNumber(ret.value[j][2])

\* What C16 expects of the catalog items, in catalog order.
C16_Expected ==
  << [source |-> "p1", content |-> "Watch - Steel watch - 500"],
     [source |-> "p2", content |-> "Ring - Gold ring - 900"] >>

\* C16: a search result that selects an ingested catalog item is a flat record
\* of source (the item's id), content ("<name> - <description> - <price>") and
\* score (the score topK gave that document), and the results are in the order
\* topK returned them.
C16_FlatCatalogResults ==
  [][\A c \in Callers :
       inflight[c].op = "search" =>
         \A q \in SyncQueryPool :
           (QuerySettles(c, q) /\ ret'.status = "ok")
             => /\ \A j \in 1..Len(ret'.value) :
                     LET i == ret'.order[j] + 1
                     IN  /\ i \in 1..Len(documents)
                         /\ DOMAIN ret'.value[j] = { "source", "content", "score" }
                         /\ ret'.value[j].source = C16_Expected[i].source
                         /\ ret'.value[j].content = C16_Expected[i].content
                         /\ ret'.value[j].score = Similarity(vectors[i].val, q)
                /\ \E top \in TopKOutcomes(vectors, q, inflight[c].count) :
                     /\ Len(top) = Len(ret'.value)
                     /\ \A j \in 1..Len(top) :
                          /\ ret'.order[j] = top[j].idx
                          /\ ret'.value[j].score = top[j].score]_vars

C16_Witness ==
  /\ fe.pc = "prompt"
  /\ ret.op = "search"
  /\ ret.status = "ok"
  /\ Len(ret.value) = 2
  /\ ret.value[1].source = "p2"
  /\ ret.value[1].content = "Ring - Gold ring - 900"
  /\ ret.value[2].source = "p1"

\* s is made of whole batches, one after another.
RECURSIVE IsBatchConcat(_)
IsBatchConcat(s) ==
  \/ s = <<>>
  \/ \E ds \in BatchPool :
       /\ Len(ds) <= Len(s)
       /\ SubSeq(s, 1, Len(ds)) = ds
       /\ IsBatchConcat(SubSeq(s, Len(ds) + 1, Len(s)))

\* C17: the append step is atomic: in every state another operation can
\* observe (a search scan, a clear), the store holds whole batches only, each
\* with as many vectors as documents, never a non-empty strict prefix of one.
C17_AtomicAppend ==
  /\ IsBatchConcat(documents)
  /\ Len(vectors) = Len(documents)

C17_Witness ==
  /\ ret.op = "search"
  /\ ret.status = "ok"
  /\ Len(ret.value) = 2
  /\ documents = <<Doc2, Doc1>>
  /\ \E c \in Callers : inflight[c].op = "addDocuments" /\ Len(inflight[c].documents) = 2

SearchStep ==
  \/ \E c \in Callers, k \in CountPool : CallSearch(c, k)
  \/ \E c \in Callers, q \in QueryPool : ResolveSearch(c, q)
  \/ \E c \in Callers : RejectSearch(c)
  \/ \E q \in QueryPool, k \in CountPool : CallSimilaritySearch(q, k)

\* C19: search and similaritySearchVectorWithScore are read-only: whether they
\* return or fail, documents and vectors are the same sequences afterwards.
C19_ReadOnly ==
  [][((\E c \in Callers : inflight'[c] # inflight[c] /\ "search" \in { inflight[c].op, inflight'[c].op })
        \/ ret'.op = "similaritySearchVectorWithScore")
       /\ SearchStep
       => StoreUnchanged]_vars

C19_Witness ==
  /\ ret.op = "search"
  /\ ret.status = "error"
  /\ ret.error = "TypeError"
  /\ Len(documents) = 2
  /\ Len(vectors) = 2

\* The exit inputs C20 names: the empty line, a blank line, and exit or quit
\* in some letter case with spaces around.
C20_ExitInputs ==
  { <<>>,
    <<" ", " ">>,
    <<"e", "x", "i", "t">>,
    <<"E", "X", "I", "T">>,
    <<" ", "Q", "u", "i", "t", " ">> }

SearchesInFlight == { c \in Callers : inflight[c].op = "search" }

\* C20: at most one query is in flight; while the loop is at a prompt no search
\* is in flight (the prompt follows the settling of the previous search); on an
\* exit input no search is invoked and the loop ends, and nothing follows the
\* end of the loop.
C20_OneQueryInFlight ==
  [][/\ Cardinality(SearchesInFlight') <= 1
     /\ fe'.pc = "prompt" => SearchesInFlight' = {}
     /\ \A input \in C20_ExitInputs :
          ReadLine(input) => /\ inflight' = inflight
                             /\ ret' = ret
                             /\ fe'.pc = "exited"
     /\ fe.pc = "exited" => (fe'.pc = "exited" /\ inflight' = inflight /\ ret' = ret)]_vars

C20_Witness ==
  /\ fe.pc = "exited"
  /\ fe.query = <<"Q", "u", "i", "t">>
  /\ ret.op = "search"
  /\ ret.status = "ok"
  /\ SearchesInFlight = {}

====
